---- MODULE Spec2Model ----
(***************************************************************************)
(* Model of the Binance Futures testnet client: bot.py (class BasicBot:    *)
(* __init__, _sign, _post, place_market_order, place_limit_order,          *)
(* place_stop_limit_order, get_account_info) and cli.py (positive_float,   *)
(* main).                                                                  *)
(*                                                                         *)
(* A behaviour is one process: either one run of cli.main() or one direct  *)
(* use of the BasicBot class (construct, then one call).  The blocking     *)
(* call session.post / session.get is the only suspension point: the code  *)
(* up to it is one action, the code after it (status check, json, summary, *)
(* exit) is part of the action that delivers the answer.                   *)
(*                                                                         *)
(* Python values are records [t, n, s, m]: t is the Python type, n the     *)
(* number, s the text, m the message of an HMAC digest.  Decimal numbers   *)
(* are modelled by integers (only sign, zero and equality matter).  A dict *)
(* is the sequence of its <<key, value>> pairs in insertion order.         *)
(***************************************************************************)
EXTENDS Integers, Sequences, FiniteSets, TLC

\* ---------------------------------------------------------------- bounds
\* Numeric inputs (quantity, price, stop price) range over -1..MaxNum.
MaxNum == 2
\* int(time.time() * 1000) ranges over 1..MaxClock.
MaxClock == 2

\* ------------------------------------------------------- program constants
RecvWindowDefault == 5000
BaseUrl == "https://testnet.binancefuture.com"
OrderPath == "/fapi/v1/order"
AccountPath == "/fapi/v2/account"
ApiKeyHeader == "X-MBX-APIKEY"
SummaryHeader == "Order placed. Response snippet:"
SummaryKeys ==
  <<"symbol", "orderId", "status", "avgPrice", "price", "origQty",
    "executedQty", "side", "type">>

\* ----------------------------------------------------------- Python values
None == [t |-> "none", n |-> 0, s |-> "", m |-> <<>>]
Str(x) == [t |-> "str", n |-> 0, s |-> x, m |-> <<>>]
IntV(x) == [t |-> "int", n |-> x, s |-> "", m |-> <<>>]
FloatV(x) == [t |-> "float", n |-> x, s |-> "", m |-> <<>>]
\* a command-line word that is the text of the number x
NumText(x) == [t |-> "numtext", n |-> x, s |-> "", m |-> <<>>]

\* bool(v) is False: None, the empty string, a zero number
Falsy(v) ==
  \/ v.t = "none"
  \/ v.t = "str" /\ v.s = ""
  \/ v.t \in {"int", "float"} /\ v.n = 0

\* float(v): a number or numeric text converts, None is a TypeError, other
\* text a ValueError
PyFloat(v) ==
  IF v.t \in {"int", "float", "numtext"}
    THEN [ok |-> TRUE, exc |-> "", val |-> FloatV(v.n)]
    ELSE IF v.t = "none"
      THEN [ok |-> FALSE, exc |-> "TypeError", val |-> None]
      ELSE [ok |-> FALSE, exc |-> "ValueError", val |-> None]

\* str.upper() on the texts the model uses
Upper(x) ==
  CASE x = "btcusdt" -> "BTCUSDT"
    [] x = "buy" -> "BUY"
    [] x = "sell" -> "SELL"
    [] OTHER -> x

\* ------------------------------------------------------------------ dicts
HasKey(d, k) == \E i \in 1..Len(d) : d[i][1] = k
Get(d, k) == d[CHOOSE i \in 1..Len(d) : d[i][1] = k][2]
\* d[k] = v: an existing key keeps its position, a new key goes last
DictSet(d, k, v) ==
  IF HasKey(d, k)
    THEN [i \in 1..Len(d) |-> IF d[i][1] = k THEN <<k, v>> ELSE d[i]]
    ELSE Append(d, <<k, v>>)
Without(d, k) == SelectSeq(d, LAMBDA p : p[1] # k)
Keys(d) == {d[i][1] : i \in 1..Len(d)}

\* str(v) as urlencode applies it to a value: None becomes the text "None"
PyStr(v) == IF v.t = "none" THEN Str("None") ELSE v

\* urllib.parse.urlencode(d, doseq=True): every pair, in dict order
UrlEncode(d) == [i \in 1..Len(d) |-> <<d[i][1], PyStr(d[i][2])>>]

\* requests' encoding of params=: a key whose value is None is left out of
\* the query, the other pairs go through urlencode in dict order
RequestsEncode(d) == UrlEncode(SelectSeq(d, LAMBDA p : p[2].t # "none"))

\* hmac.new(key, msg, sha256).hexdigest(): an opaque digest of key and msg
HmacHex(key, msg) == [t |-> "hmac", n |-> 0, s |-> key, m |-> msg]

\* ------------------------------------------------------------ input sets
NumInputs == -1..MaxNum
Clock == 1..MaxClock
\* environment variables: unset, empty, set
KeyInputs == {None, Str(""), Str("KEY1")}
SecretInputs == {None, Str(""), Str("SECRET1")}
\* words of the command line (None: the flag is not given)
SymbolWords == {Str("btcusdt"), Str("ETHUSDT")}
SideWords == {Str("BUY"), Str("SELL"), Str("buy")}
TypeWords == {Str("MARKET"), Str("LIMIT"), Str("STOPLIMIT")}
NumberWords == {NumText(x) : x \in NumInputs} \cup {Str("abc")}
TifWords == {None, Str("IOC"), Str("DAY")}
Argvs ==
  [symbol : SymbolWords, side : SideWords, type : TypeWords,
   quantity : NumberWords, price : NumberWords \cup {None},
   stop_price : NumberWords \cup {None}, tif : TifWords]
NoArgv ==
  [symbol |-> None, side |-> None, type |-> None, quantity |-> None,
   price |-> None, stop_price |-> None, tif |-> None]
\* arguments of a direct call of a BasicBot method
LibSymbols == {"btcusdt"}
LibSides == {"buy", "SELL"}
LibNumbers == {IntV(x) : x \in NumInputs}
LibTifs == {Str("GTC"), Str("FOK")}
\* mappings handed to _post directly
PostMappings ==
  { <<>>,
    << <<"symbol", Str("BTCUSDT")>>, <<"timestamp", IntV(0)>> >>,
    << <<"symbol", Str("BTCUSDT")>>, <<"timeInForce", None>> >>,
    << <<"signature", Str("abc")>>, <<"symbol", Str("BTCUSDT")>> >> }

\* ------------------------------------------------- the remote service
\* HTTP statuses of the answer session.post returns (redirects that requests
\* follows happen inside that call): success, a 3xx that is not followed,
\* client error, server error
Statuses == {200, 300, 400, 500}
TransportErrors == {"ConnectionError", "Timeout"}
JsonBody(t, items) == [json |-> TRUE, t |-> t, items |-> items]
NoBody == [json |-> FALSE, t |-> "none", items |-> <<>>]
\* response bodies: JSON objects, other JSON values, text that is not JSON
FullOrder ==
  << <<"type", Str("LIMIT")>>, <<"side", Str("BUY")>>,
     <<"executedQty", Str("0")>>, <<"origQty", Str("1")>>,
     <<"price", Str("2")>>, <<"avgPrice", Str("0.0")>>,
     <<"status", Str("NEW")>>, <<"orderId", IntV(7)>>,
     <<"symbol", Str("BTCUSDT")>> >>
Bodies ==
  { JsonBody("dict", FullOrder),
    JsonBody("dict", << <<"orderId", IntV(7)>>, <<"clientOrderId", Str("x1")>>,
                        <<"symbol", Str("BTCUSDT")>> >>),
    JsonBody("dict", << <<"code", IntV(-1102)>>, <<"msg", Str("bad")>> >>),
    JsonBody("dict", <<>>),
    JsonBody("list", << <<"symbol", None>> >>),
    JsonBody("list", <<>>),
    JsonBody("null", <<>>),
    [json |-> FALSE, t |-> "text", items |-> <<>>] }

\* -------------------------------------------------------- Python exceptions
\* except Exception: catches every exception but SystemExit
IsException(exc) == exc # "SystemExit"
\* except requests.RequestException (the JSONDecodeError of resp.json() is
\* one in current releases of requests)
IsRequestException(exc) ==
  exc \in {"HTTPError", "ConnectionError", "Timeout", "JSONDecodeError"}

\* ------------------------------------------------------------- bot.py
NoBot ==
  [api_key |-> "", api_secret |-> "", recv_window |-> 0, headers |-> <<>>]
\* a guard that tests the key only
BotInitFails_KeyOnly(k, s) == Falsy(k)
\* __init__: the guard that raises ValueError
BotInitFails(k, s) == Falsy(k) \/ Falsy(s)
\* __init__: the fields of the new object; the key goes into the session's
\* default headers
NewBot(k, s) ==
  [api_key |-> k.s, api_secret |-> s.s, recv_window |-> RecvWindowDefault,
   headers |-> << <<ApiKeyHeader, Str(k.s)>> >>]

\* _sign: the pairs the HMAC is computed over, and the digest
SignInput(p) == UrlEncode(p)
Sign(b, p) == HmacHex(b.api_secret, SignInput(p))

\* _post lines 56-57: timestamp and recvWindow are set before signing
Stamped(b, p, ts) ==
  DictSet(DictSet(p, "timestamp", IntV(ts)), "recvWindow", IntV(b.recv_window))
\* _post line 58: the signature is stored in the same dict
Signed(b, p, ts) ==
  DictSet(Stamped(b, p, ts), "signature", Sign(b, Stamped(b, p, ts)))
\* a request line that keeps the signature pair
RequestLogPairs_Unredacted(p) == UrlEncode(p)
\* _post line 59: the pairs of the REQUEST record
RequestLogPairs(p) == UrlEncode(Without(p, "signature"))
\* resp.raise_for_status(): raises HTTPError for 4xx and 5xx
RaiseForStatus(status) == status >= 400 /\ status < 600

\* the params dicts of the three order methods
MarketParams(symbol, side, quantity, reduce_only) ==
  << <<"symbol", Str(Upper(symbol))>>,
     <<"side", Str(Upper(side))>>,
     <<"type", Str("MARKET")>>,
     <<"quantity", PyFloat(quantity).val>>,
     <<"reduceOnly", Str(IF reduce_only THEN "true" ELSE "false")>> >>
LimitParams(symbol, side, quantity, price, time_in_force) ==
  << <<"symbol", Str(Upper(symbol))>>,
     <<"side", Str(Upper(side))>>,
     <<"type", Str("LIMIT")>>,
     <<"quantity", PyFloat(quantity).val>>,
     <<"price", PyFloat(price).val>>,
     <<"timeInForce", time_in_force>> >>
\* the two prices stored under each other's key
StopLimitParams_Swapped(symbol, side, quantity, stop_price, limit_price, time_in_force) ==
  << <<"symbol", Str(Upper(symbol))>>,
     <<"side", Str(Upper(side))>>,
     <<"type", Str("STOP")>>,
     <<"quantity", PyFloat(quantity).val>>,
     <<"price", PyFloat(stop_price).val>>,
     <<"stopPrice", PyFloat(limit_price).val>>,
     <<"timeInForce", time_in_force>> >>
StopLimitParams(symbol, side, quantity, stop_price, limit_price, time_in_force) ==
  << <<"symbol", Str(Upper(symbol))>>,
     <<"side", Str(Upper(side))>>,
     <<"type", Str("STOP")>>,
     <<"quantity", PyFloat(quantity).val>>,
     <<"price", PyFloat(limit_price).val>>,
     <<"stopPrice", PyFloat(stop_price).val>>,
     <<"timeInForce", time_in_force>> >>

\* ---------------------------------------------------------------- state
VARIABLES
  pc,         \* "start", "ready" (a bot built by a direct caller), "inflight", "done"
  caller,     \* "none", "cli" (a run of cli.main), "lib" (a direct use of BasicBot)
  env,        \* BINANCE_API_KEY / BINANCE_API_SECRET, or the constructor's arguments
  argv,       \* the command line of a CLI run
  bot,        \* the BasicBot object, NoBot before construction
  call,       \* the BasicBot method invoked and its arguments
  params,     \* the params dict of the call, as _post leaves it
  signed,     \* the pair lists _sign computed an HMAC over, in order
  sent,       \* the requests handed to session.post / session.get, in order
  answers,    \* how each sent request ended
  log,        \* the records written by logger
  out,        \* the lines printed on standard output
  outcome,    \* the value the invoked method returned, or the exception raised
  exit_code   \* exit status of the CLI process, -1 while it runs

vars ==
  <<pc, caller, env, argv, bot, call, params, signed, sent, answers, log, out,
    outcome, exit_code>>

NoCall ==
  [fn |-> "none", symbol |-> "", side |-> "", quantity |-> None, price |-> None,
   stop_price |-> None, tif |-> None]
NoOutcome == [kind |-> "none", exc |-> "", code |-> 0, val |-> NoBody]
Returned(v) == [kind |-> "return", exc |-> "", code |-> 0, val |-> v]
Raised(exc, code) == [kind |-> "raise", exc |-> exc, code |-> code, val |-> NoBody]
LogRec(tag, pairs, vals) == [tag |-> tag, pairs |-> pairs, vals |-> vals]

\* the part of the state the code of one process writes, as a record
Cur ==
  [pc |-> pc, bot |-> bot, call |-> call, params |-> params, signed |-> signed,
   sent |-> sent, answers |-> answers, log |-> log, out |-> out,
   outcome |-> outcome, exit_code |-> exit_code]
Apply(st) ==
  /\ pc' = st.pc /\ bot' = st.bot /\ call' = st.call /\ params' = st.params
  /\ signed' = st.signed /\ sent' = st.sent /\ answers' = st.answers
  /\ log' = st.log /\ out' = st.out /\ outcome' = st.outcome
  /\ exit_code' = st.exit_code

LogS(st, tag, pairs, vals) == [st EXCEPT !.log = Append(@, LogRec(tag, pairs, vals))]
RaiseS(st, exc, code) == [st EXCEPT !.outcome = Raised(exc, code)]
\* the process ends with this status
ExitS(st, code) == [st EXCEPT !.exit_code = code, !.pc = "done"]

\* ---------------------------------------------------- bot.py, on the state
\* _post lines 55-61 (and get_account_info lines 123-129): stamp, sign, log
\* the request line without the signature, hand the dict to the session
PostBeginS(st, method, path, p0, ts) ==
  LET b == st.bot
      p == Signed(b, p0, ts)
  IN [st EXCEPT
        !.params = p,
        !.signed = Append(@, SignInput(Stamped(b, p0, ts))),
        !.log = Append(@, LogRec("REQUEST " \o method, RequestLogPairs(p), <<>>)),
        !.sent = Append(@, [method |-> method, url |-> BaseUrl \o path,
                            headers |-> b.headers, query |-> RequestsEncode(p)]),
        !.pc = "inflight"]

CallRec(fn, symbol, side, quantity, price, stop_price, tif) ==
  [fn |-> fn, symbol |-> symbol, side |-> side, quantity |-> quantity,
   price |-> price, stop_price |-> stop_price, tif |-> tif]

\* place_market_order: float(quantity) may raise; otherwise log and _post
PlaceMarketS(st, symbol, side, quantity, reduce_only, ts) ==
  LET st1 == [st EXCEPT !.call =
                CallRec("place_market_order", symbol, side, quantity, None, None, None)]
      q == PyFloat(quantity)
  IN IF ~q.ok THEN RaiseS(st1, q.exc, 0)
     ELSE PostBeginS(
            LogS(st1, "Placing MARKET order", <<>>, <<Str(side), quantity, Str(symbol)>>),
            "POST", OrderPath, MarketParams(symbol, side, quantity, reduce_only), ts)

\* place_limit_order
PlaceLimitS(st, symbol, side, quantity, price, time_in_force, ts) ==
  LET st1 == [st EXCEPT !.call =
                CallRec("place_limit_order", symbol, side, quantity, price, None,
                        time_in_force)]
      q == PyFloat(quantity)
      pr == PyFloat(price)
  IN IF ~q.ok THEN RaiseS(st1, q.exc, 0)
     ELSE IF ~pr.ok THEN RaiseS(st1, pr.exc, 0)
     ELSE PostBeginS(
            LogS(st1, "Placing LIMIT order", <<>>,
                 <<Str(side), quantity, Str(symbol), price>>),
            "POST", OrderPath,
            LimitParams(symbol, side, quantity, price, time_in_force), ts)

\* place_stop_limit_order
PlaceStopLimitS(st, symbol, side, quantity, stop_price, limit_price, time_in_force, ts) ==
  LET st1 == [st EXCEPT !.call =
                CallRec("place_stop_limit_order", symbol, side, quantity, limit_price,
                        stop_price, time_in_force)]
      q == PyFloat(quantity)
      pr == PyFloat(limit_price)
      sp == PyFloat(stop_price)
  IN IF ~q.ok THEN RaiseS(st1, q.exc, 0)
     ELSE IF ~pr.ok THEN RaiseS(st1, pr.exc, 0)
     ELSE IF ~sp.ok THEN RaiseS(st1, sp.exc, 0)
     ELSE PostBeginS(
            LogS(st1, "Placing STOP-LIMIT order", <<>>,
                 <<Str(side), quantity, Str(symbol), stop_price, limit_price>>),
            "POST", OrderPath,
            StopLimitParams(symbol, side, quantity, stop_price, limit_price,
                            time_in_force), ts)

\* an except clause that sends the request once more before raising
PostExceptS_Retry(st, exc) ==
  [RaiseS(st, exc, 0) EXCEPT !.sent = Append(@, st.sent[Len(st.sent)])]
\* the except clause of _post / get_account_info: a RequestException is
\* logged (the text of an HTTPError or ConnectionError names the URL with its
\* query) and raised again; any other exception passes through
PostExceptS(st, exc) ==
  LET q == st.sent[Len(st.sent)].query
      st1 == IF IsRequestException(exc)
               THEN LogS(st, "Request failed",
                         IF exc \in {"HTTPError", "ConnectionError"} THEN q ELSE <<>>,
                         <<>>)
               ELSE st
  IN RaiseS(st1, exc, 0)

\* _post lines 62-64 once the session has an answer: log status and text,
\* raise_for_status, parse the JSON body and return it
PostEndS(st, status, body) ==
  LET st1 == LogS([st EXCEPT !.answers =
                     Append(@, [kind |-> "http", status |-> status, body |-> body])],
                  "STATUS", body.items, <<IntV(status)>>)
  IN IF RaiseForStatus(status) THEN PostExceptS(st1, "HTTPError")
     ELSE IF ~body.json THEN PostExceptS(st1, "JSONDecodeError")
     ELSE [st1 EXCEPT !.outcome = Returned(body)]

\* session.post / session.get raised: connection error or timeout
PostFailS(st, exc) ==
  PostExceptS([st EXCEPT !.answers =
                 Append(@, [kind |-> exc, status |-> 0, body |-> NoBody])], exc)

\* ------------------------------------------------------------- cli.py
\* positive_float: float(v), any failure or a value <= 0 is an
\* ArgumentTypeError
positive_float(v) ==
  LET f == PyFloat(v)
  IN IF ~f.ok THEN [ok |-> FALSE, val |-> None]
     ELSE IF f.val.n <= 0 THEN [ok |-> FALSE, val |-> None]
     ELSE [ok |-> TRUE, val |-> f.val]

OptionalPositive(v) ==
  IF v.t = "none" THEN [ok |-> TRUE, val |-> None] ELSE positive_float(v)

\* parser.parse_args(): required flags, choices and types; on any error
\* argparse prints the usage and exits with status 2
ParseArgs(a) ==
  [ok |->
     /\ a.symbol.t = "str"
     /\ a.side.t = "str" /\ a.side.s \in {"BUY", "SELL"}
     /\ a.type.t = "str" /\ a.type.s \in {"MARKET", "LIMIT", "STOPLIMIT"}
     /\ positive_float(a.quantity).ok
     /\ OptionalPositive(a.price).ok
     /\ OptionalPositive(a.stop_price).ok
     /\ (a.tif.t = "none" \/ a.tif.s \in {"GTC", "IOC", "FOK"}),
   ns |->
     [symbol |-> a.symbol.s, side |-> a.side.s, type |-> a.type.s,
      quantity |-> positive_float(a.quantity).val,
      price |-> OptionalPositive(a.price).val,
      stop_price |-> OptionalPositive(a.stop_price).val,
      tif |-> IF a.tif.t = "none" THEN Str("GTC") ELSE a.tif]]

\* main line 32: the credentials check
CredentialsMissing(k, s) == Falsy(k) \/ Falsy(s)

\* main lines 42 and 47: the required flags of the chosen type
MissingRequired(ns) ==
  \/ ns.type = "LIMIT" /\ Falsy(ns.price)
  \/ ns.type = "STOPLIMIT" /\ (Falsy(ns.stop_price) \/ Falsy(ns.price))

\* a handler written as a bare except: it catches SystemExit too
MainCatches_BareExcept(exc) == TRUE
\* main line 63, except Exception: which exceptions the handler catches
MainCatches(exc) == IsException(exc)

\* an exception leaves the try block of main: the handler logs it (the text
\* of an HTTPError or ConnectionError names the URL with its query) and exits
\* with 2, or it is a SystemExit and ends the process with its own code
MainExceptS(st, exc, code) ==
  IF MainCatches(exc)
    THEN ExitS(LogS(st, "Order failed",
                    IF exc \in {"HTTPError", "ConnectionError"} /\ Len(st.sent) > 0
                      THEN st.sent[Len(st.sent)].query ELSE <<>>,
                    <<>>), 2)
    ELSE ExitS(st, code)

\* main lines 39-53: the body of the try block up to the blocking call
DispatchS(st, ns, ts) ==
  IF ns.type = "MARKET"
    THEN PlaceMarketS(st, ns.symbol, ns.side, ns.quantity, FALSE, ts)
  ELSE IF MissingRequired(ns)
    THEN RaiseS(LogS(st, "order requires flag", <<>>, <<>>), "SystemExit", 1)
  ELSE IF ns.type = "LIMIT"
    THEN PlaceLimitS(st, ns.symbol, ns.side, ns.quantity, ns.price, ns.tif, ts)
  ELSE IF ns.type = "STOPLIMIT"
    THEN PlaceStopLimitS(st, ns.symbol, ns.side, ns.quantity, ns.stop_price,
                         ns.price, ns.tif, ts)
  ELSE RaiseS(LogS(st, "Unknown order type", <<>>, <<>>), "SystemExit", 1)

\* main lines 28-53: parse, check the credentials, build the bot, dispatch
MainS(st, a, k, s, ts) ==
  LET p == ParseArgs(a)
  IN IF ~p.ok THEN ExitS(st, 2)
     ELSE IF CredentialsMissing(k, s)
       THEN ExitS(LogS(st, "API credentials not found", <<>>, <<>>), 1)
     ELSE IF BotInitFails(k, s)
       THEN ExitS(RaiseS(st, "ValueError", 0), 1)
     ELSE LET st1 == LogS([st EXCEPT !.bot = NewBot(k, s)],
                          "BasicBot initialized", <<>>, <<>>)
              st2 == DispatchS(st1, p.ns, ts)
          IN IF st2.pc = "inflight" THEN st2
             ELSE MainExceptS(st2, st2.outcome.exc, st2.outcome.code)

\* main lines 59-62: the summary loop over the allow-list; k in res and
\* res[k] are a TypeError when res is no mapping
RECURSIVE SummaryLoop(_, _, _)
SummaryLoop(res, i, lines) ==
  IF i > Len(SummaryKeys) THEN [ok |-> TRUE, lines |-> lines]
  ELSE LET k == SummaryKeys[i]
       IN IF res.t = "dict"
            THEN SummaryLoop(res, i + 1,
                   IF HasKey(res.items, k)
                     THEN Append(lines, <<k, Get(res.items, k)>>)
                     ELSE lines)
          ELSE IF res.t = "list"
            THEN IF HasKey(res.items, k)
                   THEN [ok |-> FALSE, lines |-> lines]
                   ELSE SummaryLoop(res, i + 1, lines)
          ELSE [ok |-> FALSE, lines |-> lines]

\* main lines 56-65 after the order method came back
MainAfterCallS(st) ==
  IF st.outcome.kind = "raise" THEN MainExceptS(st, st.outcome.exc, st.outcome.code)
  ELSE LET res == st.outcome.val
           sm == SummaryLoop(res, 1, << <<SummaryHeader, None>> >>)
           st1 == [LogS(st, "Order response", res.items, <<>>)
                     EXCEPT !.out = st.out \o sm.lines]
       IN IF sm.ok THEN ExitS(st1, 0)
          ELSE MainExceptS(st1, "TypeError", 0)

\* the caller's code after the method: main goes on, a direct caller is done
AfterCallS(st) ==
  IF caller = "cli" THEN MainAfterCallS(st) ELSE [st EXCEPT !.pc = "done"]

\* ------------------------------------------------------------------ actions
Init ==
  /\ pc = "start" /\ caller = "none"
  /\ env = [key |-> None, secret |-> None]
  /\ argv = NoArgv
  /\ bot = NoBot /\ call = NoCall /\ params = <<>>
  /\ signed = <<>> /\ sent = <<>> /\ answers = <<>> /\ log = <<>> /\ out = <<>>
  /\ outcome = NoOutcome /\ exit_code = -1

\* one run of cli.main() up to its exit or to the blocking call
CliMain ==
  /\ pc = "start"
  /\ \E a \in Argvs, k \in KeyInputs, s \in SecretInputs, ts \in Clock :
       /\ caller' = "cli" /\ argv' = a /\ env' = [key |-> k, secret |-> s]
       /\ Apply(MainS(Cur, a, k, s, ts))

\* BasicBot(k, s) called directly
LibInit ==
  /\ pc = "start"
  /\ \E k \in KeyInputs, s \in SecretInputs :
       /\ caller' = "lib" /\ env' = [key |-> k, secret |-> s]
       /\ UNCHANGED argv
       /\ IF BotInitFails(k, s)
            THEN Apply([RaiseS(Cur, "ValueError", 0) EXCEPT !.pc = "done"])
            ELSE Apply([LogS([Cur EXCEPT !.bot = NewBot(k, s)],
                             "BasicBot initialized", <<>>, <<>>)
                          EXCEPT !.pc = "ready"])

\* a direct call either raises before _post or leaves a request in flight
LibCall(st) ==
  /\ UNCHANGED <<caller, env, argv>>
  /\ Apply(IF st.pc = "inflight" THEN st ELSE [st EXCEPT !.pc = "done"])

LibPlaceMarket ==
  /\ pc = "ready"
  /\ \E sy \in LibSymbols, sd \in LibSides, q \in LibNumbers, ro \in BOOLEAN,
        ts \in Clock :
       LibCall(PlaceMarketS(Cur, sy, sd, q, ro, ts))

LibPlaceLimit ==
  /\ pc = "ready"
  /\ \E sy \in LibSymbols, sd \in LibSides, q \in LibNumbers,
        pr \in LibNumbers \cup {None}, tf \in LibTifs, ts \in Clock :
       LibCall(PlaceLimitS(Cur, sy, sd, q, pr, tf, ts))

LibPlaceStopLimit ==
  /\ pc = "ready"
  /\ \E sy \in LibSymbols, sd \in LibSides, q \in LibNumbers,
        sp \in LibNumbers, pr \in LibNumbers, tf \in LibTifs, ts \in Clock :
       LibCall(PlaceStopLimitS(Cur, sy, sd, q, sp, pr, tf, ts))

\* _post called with a mapping of the caller's
LibPost ==
  /\ pc = "ready"
  /\ \E m \in PostMappings, ts \in Clock :
       LibCall(PostBeginS([Cur EXCEPT !.call.fn = "_post"], "POST", OrderPath, m, ts))

LibGetAccountInfo ==
  /\ pc = "ready"
  /\ \E ts \in Clock :
       LibCall(PostBeginS([Cur EXCEPT !.call.fn = "get_account_info"], "GET",
                          AccountPath, <<>>, ts))

\* the remote service answers the request in flight
HttpAnswer ==
  /\ pc = "inflight"
  /\ \E status \in Statuses, body \in Bodies :
       /\ UNCHANGED <<caller, env, argv>>
       /\ Apply(AfterCallS(PostEndS(Cur, status, body)))

\* the request in flight fails in transport or times out
TransportFailure ==
  /\ pc = "inflight"
  /\ \E exc \in TransportErrors :
       /\ UNCHANGED <<caller, env, argv>>
       /\ Apply(AfterCallS(PostFailS(Cur, exc)))

Next ==
  \/ CliMain
  \/ LibInit
  \/ LibPlaceMarket
  \/ LibPlaceLimit
  \/ LibPlaceStopLimit
  \/ LibPost
  \/ LibGetAccountInfo
  \/ HttpAnswer
  \/ TransportFailure

Spec == Init /\ [][Next]_vars

\* ================================================================= claims
CredentialsAbsent ==
  env.key \in {None, Str("")} \/ env.secret \in {None, Str("")}
\* the command line names a type and leaves out a flag that type requires
LacksRequiredFlag ==
  \/ argv.type = Str("LIMIT") /\ argv.price = None
  \/ argv.type = Str("STOPLIMIT") /\ (argv.price = None \/ argv.stop_price = None)
NoRequest == signed = <<>> /\ sent = <<>>
SuccessStatus(a) == a.kind = "http" /\ a.status >= 200 /\ a.status <= 299
OrderMethods == {"place_market_order", "place_limit_order", "place_stop_limit_order"}
NonPositive(v) == v.t \in {"int", "float", "numtext"} /\ v.n <= 0

\* C1: for every request sent, the pairs the HMAC was computed over are the
\* transmitted query without its signature pair; they hold timestamp and
\* recvWindow and no signature, and signature is the last transmitted pair.
C1_SignedIsTransmitted ==
  /\ Len(signed) = Len(sent)
  /\ \A i \in 1..Len(sent) :
       LET q == sent[i].query
       IN /\ Len(q) >= 1
          /\ q[Len(q)][1] = "signature"
          /\ SubSeq(q, 1, Len(q) - 1) = signed[i]
          /\ HasKey(signed[i], "timestamp")
          /\ HasKey(signed[i], "recvWindow")
          /\ ~HasKey(signed[i], "signature")

C3_NonPositiveRejected ==
  /\ (caller = "cli" /\ (NonPositive(argv.quantity) \/ NonPositive(argv.price)
                         \/ NonPositive(argv.stop_price)))
       => NoRequest
  /\ (caller = "lib" /\ call.fn \in OrderMethods
        /\ (NonPositive(call.quantity) \/ NonPositive(call.price)
            \/ NonPositive(call.stop_price)))
       => NoRequest

C5_ExitCodeNamesCause ==
  (caller = "cli" /\ pc = "done") =>
    /\ exit_code = 0 <=> (Len(sent) = 1 /\ Len(answers) = 1 /\ SuccessStatus(answers[1]))
    /\ exit_code = 1 => (sent = <<>> /\ (CredentialsAbsent \/ LacksRequiredFlag))
    /\ exit_code = 2 => (/\ Len(sent) = 1 /\ Len(answers) = 1
                         /\ (~SuccessStatus(answers[1]) \/ ~answers[1].body.json))

\* C6: when a sent order request is answered with a non-success status, or the
\* transport fails, _post raises, the CLI prints nothing of the summary and
\* exits with code 2.
C6_FailedCallExitsTwo ==
  (caller = "cli" /\ Len(answers) = 1 /\ ~SuccessStatus(answers[1]))
    => (outcome.kind = "raise" /\ out = <<>> /\ exit_code = 2)

Given ==
  IF caller = "cli"
    THEN [type |-> argv.type.s, symbol |-> argv.symbol.s, side |-> argv.side.s,
          quantity |-> argv.quantity, price |-> argv.price,
          stop_price |-> argv.stop_price,
          tif |-> IF argv.tif = None THEN Str("GTC") ELSE argv.tif]
    ELSE [type |-> CASE call.fn = "place_market_order" -> "MARKET"
                     [] call.fn = "place_limit_order" -> "LIMIT"
                     [] call.fn = "place_stop_limit_order" -> "STOPLIMIT"
                     [] OTHER -> "none",
          symbol |-> call.symbol, side |-> call.side, quantity |-> call.quantity,
          price |-> call.price, stop_price |-> call.stop_price, tif |-> call.tif]
UpperCased ==
  [x \in {"btcusdt", "ETHUSDT", "BUY", "SELL", "buy"} |->
     IF x = "btcusdt" THEN "BTCUSDT" ELSE IF x = "buy" THEN "BUY" ELSE x]
CommonKeys == {"symbol", "side", "type", "quantity", "timestamp", "recvWindow", "signature"}

\* C8: the params of an order that was sent depend on its type alone: MARKET
\* has type MARKET, reduceOnly ("false" from the CLI) and no price, stopPrice
\* or timeInForce whatever prices were given; LIMIT has the given price and
\* time in force (GTC when omitted) and no stopPrice; STOPLIMIT has type STOP,
\* stopPrice the given stop price and price the given limit price; symbol and
\* side are upper-cased.
C8_ParamsByType ==
  (call.fn \in OrderMethods /\ Len(sent) >= 1) =>
    /\ Get(params, "symbol") = Str(UpperCased[Given.symbol])
    /\ Get(params, "side") = Str(UpperCased[Given.side])
    /\ Get(params, "quantity") = FloatV(Given.quantity.n)
    /\ Given.type = "MARKET" =>
         /\ Keys(params) = CommonKeys \cup {"reduceOnly"}
         /\ Get(params, "type") = Str("MARKET")
         /\ Get(params, "reduceOnly") \in {Str("false"), Str("true")}
         /\ caller = "cli" => Get(params, "reduceOnly") = Str("false")
    /\ Given.type = "LIMIT" =>
         /\ Keys(params) = CommonKeys \cup {"price", "timeInForce"}
         /\ Get(params, "type") = Str("LIMIT")
         /\ Get(params, "price") = FloatV(Given.price.n)
         /\ Get(params, "timeInForce") = Given.tif
    /\ Given.type = "STOPLIMIT" =>
         /\ Keys(params) = CommonKeys \cup {"price", "stopPrice", "timeInForce"}
         /\ Get(params, "type") = Str("STOP")
         /\ Get(params, "stopPrice") = FloatV(Given.stop_price.n)
         /\ Get(params, "price") = FloatV(Given.price.n)
         /\ Get(params, "timeInForce") = Given.tif
C8_Witness ==
  /\ caller = "cli" /\ argv.type = Str("STOPLIMIT") /\ Len(sent) = 1
  /\ argv.symbol = Str("btcusdt") /\ argv.tif = None
  /\ argv.price.n # argv.stop_price.n
  /\ Get(params, "stopPrice") = FloatV(argv.stop_price.n)

\* the allow-listed fields of a JSON object, in the order of the allow-list
RECURSIVE AllowListed(_, _)
AllowListed(items, i) ==
  IF i > Len(SummaryKeys) THEN <<>>
  ELSE (IF \E j \in 1..Len(items) : items[j][1] = SummaryKeys[i]
          THEN << <<SummaryKeys[i],
                    items[CHOOSE j \in 1..Len(items) : items[j][1] = SummaryKeys[i]][2]>> >>
          ELSE <<>>)
       \o AllowListed(items, i + 1)

\* C9: for every response a successful remote call returned, the summary
\* does not fail: the header and then exactly the allow-listed fields the
\* response has, in the order of the allow-list, are printed and the run
\* exits with code 0.
C9_SummaryNeverFails ==
  (caller = "cli" /\ Len(answers) = 1 /\ SuccessStatus(answers[1])
     /\ answers[1].body.json)
    => /\ exit_code = 0
       /\ out = << <<SummaryHeader, None>> >>
                  \o AllowListed(IF answers[1].body.t = "dict"
                                   THEN answers[1].body.items ELSE <<>>, 1)

\* the text tok is a key or a text value of one of the pairs
Exposes(pairs, tok) ==
  \E i \in 1..Len(pairs) :
    pairs[i][1] = tok \/ (pairs[i][2].t = "str" /\ pairs[i][2].s = tok)
ExposesValue(vals, tok) == \E i \in 1..Len(vals) : vals[i].t = "str" /\ vals[i].s = tok
IsDigest(v) == v.t = "hmac"

\* C10: the secret is in no transmitted request and in no log record, it is
\* only the key of the HMAC; the API key travels in the X-MBX-APIKEY header
\* alone, never in the query; the REQUEST record logged before a call holds
\* neither a signature pair nor a digest.
C10_SecretsStayHome ==
  bot # NoBot =>
    /\ \A i \in 1..Len(sent) :
         /\ ~Exposes(sent[i].query, env.secret.s)
         /\ ~Exposes(sent[i].headers, env.secret.s)
         /\ ~Exposes(sent[i].query, env.key.s)
         /\ sent[i].headers = << <<ApiKeyHeader, env.key>> >>
         /\ \E j \in 1..Len(sent[i].query) :
              /\ sent[i].query[j][1] = "signature"
              /\ IsDigest(sent[i].query[j][2])
              /\ sent[i].query[j][2].s = env.secret.s
    /\ \A i \in 1..Len(log) :
         /\ ~Exposes(log[i].pairs, env.secret.s)
         /\ ~ExposesValue(log[i].vals, env.secret.s)
         /\ log[i].tag \in {"REQUEST POST", "REQUEST GET"} =>
              \A j \in 1..Len(log[i].pairs) :
                log[i].pairs[j][1] # "signature" /\ ~IsDigest(log[i].pairs[j][2])
C10_Witness ==
  /\ bot # NoBot /\ Len(sent) = 1 /\ Len(answers) = 1
  /\ \E i \in 1..Len(log) : log[i].tag = "REQUEST POST" /\ Len(log[i].pairs) >= 6
  /\ \E i \in 1..Len(log) : log[i].tag = "Request failed" /\ log[i].pairs = sent[1].query

====
